---- MODULE Spec2Model ----
(***************************************************************************)
(* Vertex sources of glium (src/vertex/mod.rs): the conversions into       *)
(* VerticesSource, the composition of one or several sources into an       *)
(* iterator (MultiVerticesSource), and Vertex::is_supported.               *)
(***************************************************************************)
EXTENDS Integers, Sequences, FiniteSets

(* ------------------------------ bounds -------------------------------- *)

\* Largest len of a marker and largest element count of a buffer slice.
MaxLen == 6
\* Number of distinct vertex buffers.
NumBuffers == 2
\* Number of distinct vertex formats (one per vertex type).
NumFormats == 2
\* Number of distinct programs.
NumPrograms == 3
\* Number of distinct attribute types.
NumAttributeTypes == 3
\* Largest number of attributes of a vertex format.
MaxAttributes == 3
\* Largest number of Vertex::is_supported calls followed.
MaxCalls == 2
\* Largest number of sources passed to one draw.
MaxDrawSources == 3
\* impl_for_tuple!(A, B, C, D, E, F, G): the largest tuple implemented.
MaxTupleArity == 7

Lens == 0 .. MaxLen
Buffers == 1 .. NumBuffers
Formats == 1 .. NumFormats
Programs == 1 .. NumPrograms
AttributeTypes == 1 .. NumAttributeTypes

(* ------------------------- values of the types ------------------------ *)

\* Option<T>: None is the empty sequence, Some(v) the one-element sequence.
None == << >>
Some(v) == << v >>

\* BufferAnySlice<'a>: a range of a buffer holding len elements.
BufferAnySlice(b, n) == [buffer |-> b, len |-> n]

\* VerticesSource::VertexBuffer(BufferAnySlice, &VertexFormat, bool)
VertexBuffer(slice, format, perInstance) ==
    [variant |-> "VertexBuffer", slice |-> slice, format |-> format,
     per_instance |-> perInstance]

\* VerticesSource::Marker { len, per_instance }
Marker(n, perInstance) ==
    [variant |-> "Marker", len |-> n, per_instance |-> perInstance]

\* struct EmptyVertexAttributes { len }
EmptyVertexAttributes(n) == [type |-> "EmptyVertexAttributes", len |-> n]

\* struct EmptyInstanceAttributes { len }
EmptyInstanceAttributes(n) == [type |-> "EmptyInstanceAttributes", len |-> n]

\* struct PerInstance<'a>(BufferAnySlice<'a>, &'a VertexFormat)
PerInstance(slice, format) == [type |-> "PerInstance", f0 |-> slice, f1 |-> format]

\* A plain reference to a vertex buffer (or a slice of one) and its format.
VertexBufferRef(slice, format) ==
    [type |-> "VertexBufferRef", slice |-> slice, format |-> format]

Slices == { BufferAnySlice(b, n) : b \in Buffers, n \in Lens }

MarkerInputs ==
    { EmptyVertexAttributes(n) : n \in Lens } \cup
    { EmptyInstanceAttributes(n) : n \in Lens }

BufferInputs ==
    { PerInstance(s, f) : s \in Slices, f \in Formats } \cup
    { VertexBufferRef(s, f) : s \in Slices, f \in Formats }

\* Every value that is Into<VerticesSource>.
SourceInputs == MarkerInputs \cup BufferInputs

(* ----------------------------- conversions ---------------------------- *)

\* A marker of phantom vertices converted as one of instances.
EmptyVertexAttributesIntoPerInstance(self) == Marker(self.len, TRUE)

\* impl Into<VerticesSource> for EmptyVertexAttributes
EmptyVertexAttributesInto(self) == Marker(self.len, FALSE)

\* A marker of instances converted as one of phantom vertices.
EmptyInstanceAttributesIntoPerVertex(self) == Marker(self.len, FALSE)

\* A marker of instances converted without its len.
EmptyInstanceAttributesIntoNoLen(self) == Marker(0, TRUE)

\* impl Into<VerticesSource> for EmptyInstanceAttributes
EmptyInstanceAttributesInto(self) == Marker(self.len, TRUE)

\* The per-instance wrapper converted like a plain buffer reference.
PerInstanceIntoPerVertex(self) == VertexBuffer(self.f0, self.f1, FALSE)

\* impl Into<VerticesSource> for PerInstance
PerInstanceInto(self) == VertexBuffer(self.f0, self.f1, TRUE)

\* Plain buffer reference -> BufferBacked { per_instance: false }.
VertexBufferRefInto(self) == VertexBuffer(self.slice, self.format, FALSE)

\* self.into(): the impl the input's type selects.
Into(self) ==
    CASE self.type = "EmptyVertexAttributes"   -> EmptyVertexAttributesInto(self)
      [] self.type = "EmptyInstanceAttributes" -> EmptyInstanceAttributesInto(self)
      [] self.type = "PerInstance"             -> PerInstanceInto(self)
      [] self.type = "VertexBufferRef"         -> VertexBufferRefInto(self)

(* ------------------------------ iterators ----------------------------- *)

\* std::option::IntoIter<T>: holds the Option it was made from.
OptionIntoIter(opt) == [kind |-> "IntoIter", inner |-> opt, a |-> None, b |-> None]

\* std::iter::Chain<A, B> as built by a.chain(b): both halves present.
Chain(first, second) ==
    [kind |-> "Chain", inner |-> None, a |-> Some(first), b |-> Some(second)]

\* <T as MultiVerticesSource>::iter for T: Into<VerticesSource>
SingleIter(self) == OptionIntoIter(Some(Into(self)))

\* The one-element tuple's iterator made from None: it yields nothing.
Tuple1IterEmpty(self) == OptionIntoIter(None)

\* <($t,) as MultiVerticesSource>::iter
Tuple1Iter(self) == OptionIntoIter(Some(Into(self[1])))

RECURSIVE TupleIter(_)

\* The tuple's iterator with the halves of each chain swapped: the rest of
\* the tuple comes before its first element.
TupleIterSwapped(self) ==
    IF Len(self) = 1
    THEN Tuple1Iter(self)
    ELSE Chain(TupleIter(Tail(self)), OptionIntoIter(Some(Into(self[1]))))

\* The tuple's iterator with a consistency check: the rest of the tuple is
\* left out once one of its sources is, like the first one, per vertex or
\* per instance, and reports another count.
TupleIterChecked(self) ==
    LET count(src) == IF src.variant = "Marker" THEN src.len ELSE src.slice.len
    IN  IF Len(self) = 1
        THEN Tuple1Iter(self)
        ELSE IF \E i \in 2 .. Len(self) :
                   /\ Into(self[i]).per_instance = Into(self[1]).per_instance
                   /\ count(Into(self[i])) # count(Into(self[1]))
             THEN Tuple1Iter(<< self[1] >>)
             ELSE Chain(OptionIntoIter(Some(Into(self[1]))), TupleIter(Tail(self)))

\* <(A, ..) as MultiVerticesSource>::iter, the arm the tuple's arity selects.
TupleIter(self) ==
    IF Len(self) = 1
    THEN Tuple1Iter(self)
    ELSE IF Len(self) = 2
         THEN Chain(OptionIntoIter(Some(Into(self[1]))), Tuple1Iter(<< self[2] >>))
         ELSE Chain(OptionIntoIter(Some(Into(self[1]))), TupleIter(Tail(self)))

RECURSIVE IteratorNext(_)
\* Iterator::next: the item (an Option) and the iterator afterwards.
\* IntoIter takes its Option; Chain asks its first half, forgets it once it
\* returns None, and then asks its second half.
IteratorNext(it) ==
    IF it.kind = "IntoIter"
    THEN [item |-> it.inner, it |-> [it EXCEPT !.inner = None]]
    ELSE LET ra == IF it.a = None
                   THEN [item |-> None, a |-> None]
                   ELSE LET r == IteratorNext(it.a[1])
                        IN  [item |-> r.item,
                             a |-> IF r.item = None THEN None ELSE Some(r.it)]
         IN  IF ra.item # None
             THEN [item |-> ra.item, it |-> [it EXCEPT !.a = ra.a]]
             ELSE IF it.b = None
                  THEN [item |-> None, it |-> [it EXCEPT !.a = ra.a]]
                  ELSE LET rb == IteratorNext(it.b[1])
                       IN  [item |-> rb.item,
                            it |-> [it EXCEPT !.a = ra.a, !.b = Some(rb.it)]]

RECURSIVE Collect(_)
\* The items a `for src in it` loop sees: next() until it returns None.
Collect(it) ==
    LET r == IteratorNext(it)
    IN  IF r.item = None THEN << >> ELSE << r.item[1] >> \o Collect(r.it)

(* ------------------------------- drawing ------------------------------ *)

\* The count a source reports: a marker its declared len, a buffer-backed
\* source the number of elements of its slice.
SourceCount(src) == IF src.variant = "Marker" THEN src.len ELSE src.slice.len

PerVertexCounts(vertex_buffers) ==
    { SourceCount(vertex_buffers[i]) :
        i \in { j \in 1 .. Len(vertex_buffers) : ~vertex_buffers[j].per_instance } }

PerInstanceCounts(vertex_buffers) ==
    { SourceCount(vertex_buffers[i]) :
        i \in { j \in 1 .. Len(vertex_buffers) : vertex_buffers[j].per_instance } }

\* Without indices every per-vertex source must report the same count.
VerticesLengthCheck(vertex_buffers, indexed) ==
    indexed \/ Cardinality(PerVertexCounts(vertex_buffers)) <= 1

\* Every per-instance source must report the same count, indices or not.
InstancesCountCheck(vertex_buffers) ==
    Cardinality(PerInstanceCounts(vertex_buffers)) <= 1

\* The program check done on the varyings' layouts, not on the identities.
FeedbackProgramCheckByLayout(program, feedback) ==
    feedback = None \/ (feedback[1].program + 1) \div 2 = (program + 1) \div 2

\* A draw that references a session must use the program of the session.
FeedbackProgramCheck(program, feedback) ==
    feedback = None \/ feedback[1].program = program

\* The conditions a draw fails with; it succeeds when there is none.
DrawErrors(vertex_buffers, indexed, program, feedback) ==
    (IF VerticesLengthCheck(vertex_buffers, indexed)
     THEN {} ELSE { "VerticesSourcesLengthMismatch" }) \cup
    (IF InstancesCountCheck(vertex_buffers)
     THEN {} ELSE { "InstancesCountMismatch" }) \cup
    (IF FeedbackProgramCheck(program, feedback)
     THEN {} ELSE { "WrongProgram" })

\* The layout of the varyings a program declares for transform feedback:
\* programs 1 and 2 declare the same layout, program 3 another, and so on.
VaryingsLayout(program) == (program + 1) \div 2

FeedbackBufferTypes == { VaryingsLayout(p) : p \in Programs }

(* --------------------------- Vertex::is_supported --------------------- *)

\* AttributeType::is_supported(caps): caps is the set of supported types.
AttributeTypeIsSupported(ty, caps) == ty \in caps

RECURSIVE IsSupportedLoop(_, _, _)
\* for &(_, _, ref ty, _) in format.iter() { if !ty.is_supported(caps)
\* { return false; } } true, from the i-th attribute on.
IsSupportedLoop(format, i, caps) ==
    IF i > Len(format) THEN TRUE
    ELSE IF ~AttributeTypeIsSupported(format[i][3], caps) THEN FALSE
         ELSE IsSupportedLoop(format, i + 1, caps)

\* Vertex::is_supported looking at the first attribute only.
VertexIsSupportedFirstOnly(format, caps) ==
    Len(format) = 0 \/ AttributeTypeIsSupported(format[1][3], caps)

\* Vertex::is_supported on the format build_bindings returned.
VertexIsSupported(format, caps) == IsSupportedLoop(format, 1, caps)

\* One attribute of a format: (name, offset, type, normalize).
RECURSIVE FormatsOf(_)
FormatsOf(n) ==
    IF n = 0 THEN { << >> }
    ELSE { Append(f, << n, 4 * (n - 1), ty, FALSE >>) :
             f \in FormatsOf(n - 1), ty \in AttributeTypes }

\* The formats a vertex type's build_bindings may return.
VertexFormats == UNION { FormatsOf(n) : n \in 0 .. MaxAttributes }

(* -------------------------------- state ------------------------------- *)

VARIABLES
    pc,            \* "idle", or "iterating" once iter() has been called
    sources,       \* the tuple iter() was called on
    iterator,      \* Option: the iterator iter() returned
    yielded,       \* the items next() has returned so far
    exhausted,     \* next() has returned None
    single,        \* Option: the value iter() was called on as a single source
    singleIterator,\* Option: the iterator of the single source
    singleYielded, \* the items the single source's iterator returned so far
    singleExhausted,
    conv,          \* Option: the last conversion, its input and its output
    prevConv,      \* Option: the conversion before the last
    session,       \* the TransformFeedbackSession: its state and what it binds
    lastDraw,      \* Option: the last draw, its arguments and its outcome
    bindings,      \* Option: what build_bindings of the vertex type returns
    buildCalls,    \* number of evaluations of build_bindings
    supportedCalls,\* number of Vertex::is_supported calls
    lastSupported  \* Option: the last is_supported call: caps, format, result

composeVars == << pc, sources, iterator, yielded, exhausted >>
singleVars == << single, singleIterator, singleYielded, singleExhausted >>
convVars == << conv, prevConv >>
drawVars == << session, lastDraw >>
vertexVars == << bindings, buildCalls, supportedCalls, lastSupported >>

vars == << composeVars, singleVars, convVars, drawVars, vertexVars >>

Init ==
    /\ pc = "idle"
    /\ sources = << >>
    /\ iterator = None
    /\ yielded = << >>
    /\ exhausted = FALSE
    /\ single = None
    /\ singleIterator = None
    /\ singleYielded = << >>
    /\ singleExhausted = FALSE
    /\ conv = None
    /\ prevConv = None
    /\ session = [state |-> "Uninitialized", program |-> 0, buffer |-> 0]
    /\ lastDraw = None
    /\ bindings = None
    /\ buildCalls = 0
    /\ supportedCalls = 0
    /\ lastSupported = None

(* ------------------------------ composition --------------------------- *)

\* self.iter() on a tuple.
IterTuple(self) ==
    /\ pc = "idle"
    /\ pc' = "iterating"
    /\ sources' = self
    /\ iterator' = Some(TupleIter(self))
    /\ yielded' = << >>
    /\ exhausted' = FALSE
    /\ UNCHANGED << singleVars, convVars, drawVars, vertexVars >>

\* iterator.next() on the tuple's iterator.
TupleNext ==
    /\ pc = "iterating"
    /\ LET r == IteratorNext(iterator[1])
       IN  /\ iterator' = Some(r.it)
           /\ yielded' = IF r.item = None THEN yielded ELSE Append(yielded, r.item[1])
           /\ exhausted' = (exhausted \/ r.item = None)
    /\ UNCHANGED << pc, sources >>
    /\ UNCHANGED << singleVars, convVars, drawVars, vertexVars >>

\* self.iter() on a single value that is Into<VerticesSource>.
IterSingle(self) ==
    /\ single = None
    /\ single' = Some(self)
    /\ singleIterator' = Some(SingleIter(self))
    /\ singleYielded' = << >>
    /\ singleExhausted' = FALSE
    /\ UNCHANGED << composeVars, convVars, drawVars, vertexVars >>

\* iterator.next() on the single value's iterator.
SingleNext ==
    /\ single # None
    /\ LET r == IteratorNext(singleIterator[1])
       IN  /\ singleIterator' = Some(r.it)
           /\ singleYielded' =
                IF r.item = None THEN singleYielded ELSE Append(singleYielded, r.item[1])
           /\ singleExhausted' = (singleExhausted \/ r.item = None)
    /\ UNCHANGED single
    /\ UNCHANGED << composeVars, convVars, drawVars, vertexVars >>

\* The sources composed into tuples of every implemented arity: per-vertex
\* and per-instance markers of the two largest lens and a per-instance
\* buffer, so that tuples whose counts agree and tuples whose counts
\* disagree both occur.
ComposeInputs ==
    { EmptyVertexAttributes(n) : n \in (MaxLen - 1) .. MaxLen } \cup
    { EmptyInstanceAttributes(n) : n \in (MaxLen - 1) .. MaxLen } \cup
    { PerInstance(BufferAnySlice(1, MaxLen - 1), 1) }

NextCompose ==
    \/ /\ pc = "idle"
       /\ \E n \in 1 .. MaxTupleArity :
             \E self \in [1 .. n -> ComposeInputs] : IterTuple(self)
    \/ TupleNext

SpecCompose == Init /\ [][NextCompose]_vars

\* A single value and the one-element tuple of a value, side by side.
NextSingle ==
    \/ /\ single = None
       /\ \E self \in SourceInputs : IterSingle(self)
    \/ SingleNext
    \/ /\ pc = "idle"
       /\ \E self \in [1 .. 1 -> SourceInputs] : IterTuple(self)
    \/ TupleNext

SpecSingle == Init /\ [][NextSingle]_vars

(* ------------------------------ conversion ---------------------------- *)

\* input.into(): one conversion into a VerticesSource.
Convert(input) ==
    /\ prevConv' = conv
    /\ conv' = Some([input |-> input, output |-> Into(input)])
    /\ UNCHANGED << composeVars, singleVars, drawVars, vertexVars >>

NextConvert == \E input \in SourceInputs : Convert(input)

SpecConvert == Init /\ [][NextConvert]_vars

(* -------------------------------- draws ------------------------------- *)

\* TransformFeedbackSession::new(buffer, program): the session becomes
\* Active when the buffer's element type is the layout the program declares,
\* and creation fails otherwise.
SessionNew(bufferType, program) ==
    /\ session.state = "Uninitialized"
    /\ session' =
         IF bufferType = VaryingsLayout(program)
         THEN [state |-> "Active", program |-> program, buffer |-> bufferType]
         ELSE session
    /\ UNCHANGED lastDraw
    /\ UNCHANGED << composeVars, singleVars, convVars, vertexVars >>

\* The session is dropped.
SessionDrop ==
    /\ session.state = "Active"
    /\ session' = [session EXCEPT !.state = "Consumed"]
    /\ UNCHANGED lastDraw
    /\ UNCHANGED << composeVars, singleVars, convVars, vertexVars >>

\* draw(vertex_buffers, indices, program, .., params): the sources are
\* enumerated with iter() and checked; useSession tells whether the draw
\* parameters reference the session.
Draw(vertex_buffers, indexed, program, useSession) ==
    /\ useSession => session.state = "Active"
    /\ lastDraw' =
         Some([vertex_buffers |-> vertex_buffers,
               indexed |-> indexed,
               program |-> program,
               feedback |-> useSession,
               errors |-> DrawErrors(Collect(TupleIter(vertex_buffers)), indexed,
                                     program,
                                     IF useSession THEN Some(session) ELSE None)])
    /\ UNCHANGED session
    /\ UNCHANGED << composeVars, singleVars, convVars, vertexVars >>

\* The counts of the sources of the draws: from the 3 vertices of the
\* smallest buffer drawn to MaxLen.
DrawLens == 3 .. MaxLen

\* The sources of the draws: markers, and a plain and a per-instance
\* reference to a slice, of every such count.
DrawInputs ==
    { EmptyVertexAttributes(n) : n \in DrawLens } \cup
    { EmptyInstanceAttributes(n) : n \in DrawLens } \cup
    { PerInstance(BufferAnySlice(1, n), 1) : n \in DrawLens } \cup
    { VertexBufferRef(BufferAnySlice(1, n), 1) : n \in DrawLens }

\* One draw of every tuple of sources, with and without indices.
NextDraw ==
    /\ lastDraw = None
    /\ \E n \in 1 .. MaxDrawSources :
          \E vertex_buffers \in [1 .. n -> DrawInputs], indexed \in BOOLEAN :
             Draw(vertex_buffers, indexed, 1, FALSE)

SpecDraw == Init /\ [][NextDraw]_vars

\* The sources of the draws that follow a transform feedback session.
FeedbackDrawSources ==
    { << EmptyVertexAttributes(MaxLen) >>,
      << EmptyVertexAttributes(MaxLen), EmptyInstanceAttributes(MaxLen) >> }

\* A session's life, and draws with every program, with and without it.
NextFeedback ==
    \/ \E bufferType \in FeedbackBufferTypes, program \in Programs :
          SessionNew(bufferType, program)
    \/ SessionDrop
    \/ \E vertex_buffers \in FeedbackDrawSources, indexed \in BOOLEAN,
          program \in Programs, useSession \in BOOLEAN :
          Draw(vertex_buffers, indexed, program, useSession)

SpecFeedback == Init /\ [][NextFeedback]_vars

(* ------------------------------- vertices ----------------------------- *)

\* Self::build_bindings() of the vertex type.
BuildBindings == bindings[1]

\* impl Vertex for T: the type's build_bindings is defined to return format.
ImplementVertex(format) ==
    /\ bindings = None
    /\ bindings' = Some(format)
    /\ UNCHANGED << buildCalls, supportedCalls, lastSupported >>
    /\ UNCHANGED << composeVars, singleVars, convVars, drawVars >>

\* T::is_supported(caps) over a format built on the first call and kept.
IsSupportedCached(caps) ==
    /\ bindings # None
    /\ supportedCalls < MaxCalls
    /\ supportedCalls' = supportedCalls + 1
    /\ buildCalls' = IF buildCalls = 0 THEN 1 ELSE buildCalls
    /\ lastSupported' = Some([caps |-> caps, format |-> bindings[1],
                              result |-> VertexIsSupported(bindings[1], caps)])
    /\ UNCHANGED bindings
    /\ UNCHANGED << composeVars, singleVars, convVars, drawVars >>

\* T::is_supported(caps): build_bindings is evaluated, then the loop runs.
IsSupported(caps) ==
    /\ bindings # None
    /\ supportedCalls < MaxCalls
    /\ supportedCalls' = supportedCalls + 1
    /\ buildCalls' = buildCalls + 1
    /\ LET format == BuildBindings
       IN  lastSupported' = Some([caps |-> caps, format |-> format,
                                  result |-> VertexIsSupported(format, caps)])
    /\ UNCHANGED bindings
    /\ UNCHANGED << composeVars, singleVars, convVars, drawVars >>

NextVertex ==
    \/ \E format \in VertexFormats : ImplementVertex(format)
    \/ \E caps \in SUBSET AttributeTypes : IsSupported(caps)

SpecVertex == Init /\ [][NextVertex]_vars

(* ------------------------------ everything ---------------------------- *)

Next ==
    \/ NextCompose
    \/ NextSingle
    \/ NextConvert
    \/ NextDraw
    \/ NextFeedback
    \/ NextVertex

Spec == Init /\ [][Next]_vars

(* ------------------------------ properties ---------------------------- *)

\* The conversions of the tuple's elements, in the tuple's order.
Converted(self) == [i \in 1 .. Len(self) |-> Into(self[i])]

\* C1: iter() on a tuple of N sources (1 <= N <= 7) yields exactly N items,
\* the i-th being the conversion of the i-th element: what has been yielded
\* is always the conversions of the first elements in order, the next item
\* is the conversion of the next element, and after the N-th item next()
\* returns None.
C1_TupleOrderPreserved ==
    pc = "iterating" =>
        LET n == Len(sources)
            k == Len(yielded)
            r == IteratorNext(iterator[1])
        IN  /\ n \in 1 .. MaxTupleArity
            /\ k <= n
            /\ \A i \in 1 .. k : yielded[i] = Into(sources[i])
            /\ k < n => r.item = Some(Into(sources[k + 1]))
            /\ k = n => r.item = None
            /\ exhausted => k = n

\* A tuple of seven sources, its first, second and last of different types, has
\* been iterated to the end.
C1_Witness ==
    /\ pc = "iterating"
    /\ exhausted
    /\ Len(sources) = MaxTupleArity
    /\ Len(yielded) = MaxTupleArity
    /\ sources[1] = EmptyInstanceAttributes(MaxLen)
    /\ sources[2] = PerInstance(BufferAnySlice(1, MaxLen - 1), 1)
    /\ sources[MaxTupleArity] = EmptyVertexAttributes(MaxLen)

\* C8: a single value and the one-element tuple of the same value yield
\* equal sequences: one item each, the conversion of the value.
C8_SingleEqualsOneTuple ==
    (/\ single # None
     /\ pc = "iterating"
     /\ Len(sources) = 1
     /\ sources[1] = single[1])
    => /\ Len(singleYielded) <= 1
       /\ Len(yielded) <= 1
       /\ Len(singleYielded) = Len(yielded) => singleYielded = yielded
       /\ (singleExhausted /\ exhausted) =>
            /\ singleYielded = yielded
            /\ Len(yielded) = 1
            /\ yielded[1] = Into(single[1])

\* A per-instance buffer has been iterated to the end both as a single
\* value and as a one-element tuple.
C8_Witness ==
    /\ single = Some(PerInstance(BufferAnySlice(1, MaxLen), 1))
    /\ pc = "iterating"
    /\ Len(sources) = 1
    /\ sources[1] = single[1]
    /\ singleExhausted
    /\ exhausted
    /\ Len(yielded) = 1

\* The count an input of a draw declares: a marker its len, a buffer
\* reference the number of elements of its slice.
InputCount(input) ==
    CASE input.type = "EmptyVertexAttributes"   -> input.len
      [] input.type = "EmptyInstanceAttributes" -> input.len
      [] input.type = "PerInstance"             -> input.f0.len
      [] input.type = "VertexBufferRef"         -> input.slice.len

PerInstanceInputCounts(self) ==
    { InputCount(self[i]) :
        i \in { j \in 1 .. Len(self) :
                  self[j].type \in { "EmptyInstanceAttributes", "PerInstance" } } }

PerVertexInputCounts(self) ==
    { InputCount(self[i]) :
        i \in { j \in 1 .. Len(self) :
                  self[j].type \in { "EmptyVertexAttributes", "VertexBufferRef" } } }

\* The per-vertex counts or the per-instance counts of the tuple disagree.
CountsDisagree(self) ==
    \/ Cardinality(PerVertexInputCounts(self)) > 1
    \/ Cardinality(PerInstanceInputCounts(self)) > 1

\* C9: iter() checks nothing. On a tuple whose counts disagree the items
\* yielded so far followed by the items still to come are the conversions
\* of all the elements, unchanged and in order, and the mismatch shows only
\* when the yielded sequence is validated as a draw's sources.
C9_CompositionDoesNotValidate ==
    (pc = "iterating" /\ CountsDisagree(sources)) =>
        /\ yielded \o Collect(iterator[1]) = Converted(sources)
        /\ exhausted =>
             /\ yielded = Converted(sources)
             /\ DrawErrors(yielded, FALSE, 1, None) # {}

\* Markers of instances of len MaxLen - 1 and MaxLen (5 and 6) and markers
\* of vertices of the same two lens, composed in one tuple, have all been
\* yielded.
C9_Witness ==
    /\ pc = "iterating"
    /\ exhausted
    /\ Len(sources) = 4
    /\ sources[1] = EmptyInstanceAttributes(MaxLen - 1)
    /\ sources[2] = EmptyInstanceAttributes(MaxLen)
    /\ sources[3] = EmptyVertexAttributes(MaxLen - 1)
    /\ sources[4] = EmptyVertexAttributes(MaxLen)
    /\ Len(yielded) = 4
    /\ yielded[2] = Marker(MaxLen, TRUE)

\* C3: with or without indices, a draw fails with InstancesCountMismatch
\* exactly when its per-instance sources, markers and buffers alike, do not
\* all report the same count.
C3_InstancesCountChecked ==
    lastDraw # None =>
        LET d == lastDraw[1]
        IN  /\ ("InstancesCountMismatch" \in d.errors)
                <=> (Cardinality(PerInstanceInputCounts(d.vertex_buffers)) > 1)
            /\ Cardinality(PerInstanceInputCounts(d.vertex_buffers)) > 1
                => d.errors # {}

\* An indexed draw of per-instance sources of counts 5, 5 and 6 (a marker,
\* a buffer and a marker) has failed with InstancesCountMismatch.
C3_Witness ==
    /\ lastDraw # None
    /\ lastDraw[1].indexed
    /\ Len(lastDraw[1].vertex_buffers) = 3
    /\ lastDraw[1].vertex_buffers[1] = EmptyInstanceAttributes(5)
    /\ lastDraw[1].vertex_buffers[2] = PerInstance(BufferAnySlice(1, 5), 1)
    /\ lastDraw[1].vertex_buffers[3] = EmptyInstanceAttributes(6)
    /\ lastDraw[1].errors = { "InstancesCountMismatch" }

\* C4: a draw without indices fails with VerticesSourcesLengthMismatch
\* exactly when its per-vertex sources do not all report the same count, a
\* marker counting for its declared len.
C4_VerticesLengthChecked ==
    (lastDraw # None /\ ~lastDraw[1].indexed) =>
        LET d == lastDraw[1]
        IN  /\ ("VerticesSourcesLengthMismatch" \in d.errors)
                <=> (Cardinality(PerVertexInputCounts(d.vertex_buffers)) > 1)
            /\ Cardinality(PerVertexInputCounts(d.vertex_buffers)) > 1
                => d.errors # {}

\* A draw without indices of a buffer of 3 vertices and
\* EmptyVertexAttributes { len: 5 } has failed with
\* VerticesSourcesLengthMismatch.
C4_Witness ==
    /\ lastDraw # None
    /\ ~lastDraw[1].indexed
    /\ Len(lastDraw[1].vertex_buffers) = 2
    /\ lastDraw[1].vertex_buffers[1] = VertexBufferRef(BufferAnySlice(1, 3), 1)
    /\ lastDraw[1].vertex_buffers[2] = EmptyVertexAttributes(5)
    /\ lastDraw[1].errors = { "VerticesSourcesLengthMismatch" }

\* C5: a draw that references the session passes the program check when
\* its program is the one the session was created with, and fails with the
\* program mismatch, never silently, when its program is any other.
C5_SessionProgramChecked ==
    (lastDraw # None /\ lastDraw[1].feedback) =>
        LET d == lastDraw[1]
        IN  /\ session.state \in { "Active", "Consumed" }
            /\ d.program = session.program => "WrongProgram" \notin d.errors
            /\ d.program # session.program =>
                 ("WrongProgram" \in d.errors /\ d.errors # {})

\* A session created with program 1 has been referenced by a draw with
\* program 2, whose varyings have the same layout, and the draw has failed.
C5_Witness ==
    /\ lastDraw # None
    /\ lastDraw[1].feedback
    /\ session.state = "Active"
    /\ session.program = 1
    /\ lastDraw[1].program = 2
    /\ lastDraw[1].errors = { "WrongProgram" }

\* The last two conversions are of a plain reference and of the per-instance
\* wrapper of the same slice and format: a is the plain one's, b the wrapper's.
PlainThenWrapped(a, b) ==
    /\ a.input.type = "VertexBufferRef"
    /\ b.input.type = "PerInstance"
    /\ a.input.slice = b.input.f0
    /\ a.input.format = b.input.f1

\* C6: a plain buffer reference converts to a buffer-backed source with
\* per_instance = false, its per-instance wrapper to one with per_instance
\* = true holding the wrapper's slice and format, and the two results
\* differ in the flag and in nothing else.
C6_PerInstanceFlagOnly ==
    /\ \A c \in { conv, prevConv } :
         (c # None /\ c[1].input.type = "VertexBufferRef") =>
            /\ c[1].output.variant = "VertexBuffer"
            /\ c[1].output.per_instance = FALSE
    /\ \A c \in { conv, prevConv } :
         (c # None /\ c[1].input.type = "PerInstance") =>
            /\ c[1].output.variant = "VertexBuffer"
            /\ c[1].output.per_instance = TRUE
            /\ c[1].output.slice = c[1].input.f0
            /\ c[1].output.format = c[1].input.f1
    /\ (conv # None /\ prevConv # None) =>
         \A a, b \in { conv[1], prevConv[1] } :
            PlainThenWrapped(a, b) =>
               /\ a.output # b.output
               /\ [a.output EXCEPT !.per_instance = TRUE] = b.output

\* A slice of buffer 2 has been converted as a plain reference and then as
\* its per-instance wrapper.
C6_Witness ==
    /\ prevConv = Some([input |-> VertexBufferRef(BufferAnySlice(2, MaxLen), 2),
                        output |-> VertexBuffer(BufferAnySlice(2, MaxLen), 2, FALSE)])
    /\ conv # None
    /\ conv[1].input = PerInstance(BufferAnySlice(2, MaxLen), 2)
    /\ conv[1].output.per_instance

\* C7: EmptyVertexAttributes { len: n } converts to a Marker of len n with
\* per_instance = false and EmptyInstanceAttributes { len: n } to a Marker
\* of len n with per_instance = true, never to a buffer-backed source.
C7_MarkersKeepLen ==
    \A c \in { conv, prevConv } :
        /\ (c # None /\ c[1].input.type = "EmptyVertexAttributes") =>
              /\ c[1].output.variant = "Marker"
              /\ c[1].output.len = c[1].input.len
              /\ c[1].output.per_instance = FALSE
        /\ (c # None /\ c[1].input.type = "EmptyInstanceAttributes") =>
              /\ c[1].output.variant = "Marker"
              /\ c[1].output.len = c[1].input.len
              /\ c[1].output.per_instance = TRUE

\* Markers of the same len, one of each type, have been converted.
C7_Witness ==
    /\ prevConv # None
    /\ conv # None
    /\ prevConv[1].input = EmptyVertexAttributes(MaxLen)
    /\ conv[1].input = EmptyInstanceAttributes(MaxLen)
    /\ conv[1].output.len = MaxLen
    /\ conv[1].output.per_instance

\* C2: Vertex::is_supported(caps) is true exactly when every attribute type
\* of the format build_bindings returns is supported by caps.
C2_SupportedIffAllAttributes ==
    lastSupported # None =>
        LET c == lastSupported[1]
        IN  c.result <=>
              \A i \in 1 .. Len(bindings[1]) :
                 AttributeTypeIsSupported(bindings[1][i][3], c.caps)

\* A format of three attributes whose last alone is unsupported has been
\* found unsupported.
C2_Witness ==
    /\ lastSupported # None
    /\ Len(bindings[1]) = 3
    /\ bindings[1][1][3] = 1
    /\ bindings[1][2][3] = 2
    /\ bindings[1][3][3] = 3
    /\ lastSupported[1].caps = { 1, 2 }
    /\ lastSupported[1].result = FALSE

\* C10 as stated: build_bindings is evaluated at most once per vertex type,
\* however often is_supported is called.
C10_BuiltAtMostOnce == buildCalls <= 1

\* C10, amended: every is_supported call evaluates build_bindings once more,
\* and inspects the format the vertex type defines.
C10_BuiltOnEveryCall ==
    /\ buildCalls = supportedCalls
    /\ lastSupported # None => lastSupported[1].format = bindings[1]

\* is_supported has been called twice on one vertex type.
C10_Witness ==
    /\ supportedCalls = 2
    /\ buildCalls = 2
    /\ lastSupported # None

====
